---- MODULE Spec2Model ----
(***************************************************************************)
(* Model of src/lib.rs of czech-addresses: parse_addresses_from_csv reads  *)
(* a ZIP archive of semicolon-delimited, WINDOWS-1250 encoded CSV tables   *)
(* and deserializes every data row into an Address.                        *)
(*                                                                         *)
(* Text is modelled character by character: a cell is a sequence of        *)
(* one-character strings.  Bytes of the archive are named by the ASCII     *)
(* character they encode, or by "0xNN" for bytes above 0x7F.               *)
(***************************************************************************)
EXTENDS Integers, Sequences, FiniteSets, Bags, TLC

\* ------------------------------------------------------------------ bounds
\* Largest number of entries in an archive.
MaxEntries == 2
\* Largest number of data rows in an entry.
MaxRows == 2
\* Lines of an entry one refill of the CSV reader's buffer pulls from the archive.
BufRows == 1
\* Longest free-form cell enumerated for the cell-level checks.
MaxCellLen == 2

\* ------------------------------------------------------------------ results
Ok(v) == [ok |-> TRUE, val |-> v]
Err(e) == [ok |-> FALSE, err |-> e]

\* F applied to the value of v, computed once.
Strict(F(_), v) == CHOOSE r \in {F(x) : x \in {v}} : TRUE

None == [some |-> FALSE]
Some(x) == [some |-> TRUE, v |-> x]

\* ------------------------------------------------------------------ characters
Digits == {"0", "1", "2", "3", "4", "5", "6", "7", "8", "9"}

\* char::to_digit(16): the value of a digit character, 99 for any other one.
DigitVal(c) ==
  CASE c = "0" -> 0 [] c = "1" -> 1 [] c = "2" -> 2 [] c = "3" -> 3
    [] c = "4" -> 4 [] c = "5" -> 5 [] c = "6" -> 6 [] c = "7" -> 7
    [] c = "8" -> 8 [] c = "9" -> 9
    [] c \in {"a", "A"} -> 10 [] c \in {"b", "B"} -> 11
    [] c \in {"c", "C"} -> 12 [] c \in {"d", "D"} -> 13
    [] c \in {"e", "E"} -> 14 [] c \in {"f", "F"} -> 15
    [] OTHER -> 99

IsDigit(c, radix) == DigitVal(c) < radix

\* The leading characters of s that are decimal digits, at most max of them.
RECURSIVE DigitPrefix(_, _)
DigitPrefix(s, max) ==
  IF s = <<>> \/ max = 0 \/ ~IsDigit(Head(s), 10) THEN <<>>
  ELSE <<Head(s)>> \o DigitPrefix(Tail(s), max - 1)

Drop(s, n) == SubSeq(s, n + 1, Len(s))

\* str::trim_start over the white space the model's alphabet has.
RECURSIVE TrimStart(_)
TrimStart(s) == IF s # <<>> /\ Head(s) = " " THEN TrimStart(Tail(s)) ELSE s

\* The number a sequence of digit characters denotes.
RECURSIVE DigitsValue(_, _, _)
DigitsValue(ds, radix, acc) ==
  IF ds = <<>> THEN acc
  ELSE DigitsValue(Tail(ds), radix, acc * radix + DigitVal(Head(ds)))

\* ------------------------------------------------------------------ WINDOWS-1250
\* encoding_rs WINDOWS_1250: every byte decodes (the WHATWG index maps all 256
\* values); ASCII bytes decode to themselves.
Decode1250(b) ==
  CASE b = "0xE8" -> "U+010D"
    [] b = "0xE1" -> "U+00E1"
    [] b = "0x81" -> "U+0081"
    [] OTHER -> b

\* A decoder that hands the bytes on as they are, as if the entries were UTF-8.
DecodeCellRaw(bytes) == bytes

\* DecodeReaderBytes over a cell: byte after byte.
RECURSIVE DecodeCell(_)
DecodeCell(bytes) ==
  IF bytes = <<>> THEN <<>> ELSE <<Decode1250(Head(bytes))>> \o DecodeCell(Tail(bytes))

\* The cells of one line, decoded.
RECURSIVE DecodeRecord(_)
DecodeRecord(raw) ==
  IF raw = <<>> THEN <<>> ELSE <<DecodeCell(Head(raw))>> \o DecodeRecord(Tail(raw))

\* ------------------------------------------------------------------ integers
\* An unsigned integer is kept as three limbs in base 10^7, most significant
\* first, so that the whole u64 range is exact within TLC's integers.
Limb == 10 ^ 7

Unsigned(n) == <<0, n \div Limb, n % Limb>>

U32Max == <<0, 429, 4967295>>
U64Max == <<184467, 4407370, 9551615>>

Greater(a, b) ==
  \E k \in 1..3 : a[k] > b[k] /\ \A j \in 1..(k - 1) : a[j] = b[j]

\* acc * radix + d
MulAdd(acc, radix, d) ==
  LET t0 == acc[3] * radix + d
      t1 == acc[2] * radix + (t0 \div Limb)
      t2 == acc[1] * radix + (t1 \div Limb)
  IN <<t2, t1 % Limb, t0 % Limb>>

\* The digit loop of <unsigned>::from_str_radix: the first bad digit or the
\* first overflow, whichever comes first from the left, is the error.
RECURSIVE Accumulate(_, _, _, _)
Accumulate(ds, radix, max, acc) ==
  IF ds = <<>> THEN Ok(acc)
  ELSE IF ~IsDigit(Head(ds), radix) THEN Err("InvalidDigit")
  ELSE Strict(LAMBDA next : IF Greater(next, max) THEN Err("PosOverflow")
                             ELSE Accumulate(Tail(ds), radix, max, next),
              MulAdd(acc, radix, DigitVal(Head(ds))))

\* <unsigned>::from_str_radix: an optional '+', no '-', at least one digit.
FromStrRadix(src, radix, max) ==
  IF src = <<>> THEN Err("Empty")
  ELSE IF src \in {<<"+">>, <<"-">>} THEN Err("InvalidDigit")
  ELSE Accumulate(IF Head(src) = "+" THEN Tail(src) ELSE src, radix, max, Unsigned(0))

\* csv's deserialize_u32 / deserialize_u64: "0x" announces a hexadecimal field.
DeserializeInt(field, max) ==
  LET hex == Len(field) >= 2 /\ SubSeq(field, 1, 2) = <<"0", "x">>
      wrap(num) == IF num.ok THEN num ELSE Err([kind |-> "ParseInt", why |-> num.err])
  IN Strict(wrap, FromStrRadix(IF hex THEN Drop(field, 2) ELSE field,
                               IF hex THEN 16 ELSE 10, max))

DeserializeU32(field) == DeserializeInt(field, U32Max)
DeserializeU64(field) == DeserializeInt(field, U64Max)

\* ------------------------------------------------------------------ floats
RECURSIVE StripTrailingZeros(_)
StripTrailingZeros(ds) ==
  IF ds # <<>> /\ ds[Len(ds)] = "0" THEN StripTrailingZeros(SubSeq(ds, 1, Len(ds) - 1))
  ELSE ds

RECURSIVE StripLeadingZeros(_)
StripLeadingZeros(ds) ==
  IF Len(ds) > 1 /\ Head(ds) = "0" THEN StripLeadingZeros(Tail(ds)) ELSE ds

\* f32::from_str over the model's alphabet (no exponent, no inf/nan letters):
\* [+-] digits [. digits], with a digit on at least one side of the point.  The
\* value is kept as the decimal it denotes: sign, significant digits, number of
\* fractional digits.
DeserializeF32(field) ==
  IF field = <<>> THEN Err([kind |-> "ParseFloat", why |-> "Empty"])
  ELSE LET neg == Head(field) = "-"
           body == IF Head(field) \in {"+", "-"} THEN Tail(field) ELSE field
           ip == DigitPrefix(body, Len(body))
           r1 == Drop(body, Len(ip))
           point == r1 # <<>> /\ Head(r1) = "."
           fp == IF point THEN DigitPrefix(Tail(r1), Len(r1)) ELSE <<>>
           rest == IF point THEN Drop(r1, 1 + Len(fp)) ELSE r1
           frac == StripTrailingZeros(fp)
       IN IF rest # <<>> \/ (ip = <<>> /\ fp = <<>>)
          THEN Err([kind |-> "ParseFloat", why |-> "Invalid"])
          ELSE Ok([neg |-> neg,
                   digits |-> StripLeadingZeros(<<"0">> \o ip \o frac),
                   scale |-> Len(frac)])

\* ------------------------------------------------------------------ strings, options
\* deserialize_string: the decoded field as it stands.
DeserializeString(field) == Ok(field)

\* csv's deserialize_option: an empty field is None, any other field is handed
\* to the inner type's deserializer and its failure is the row's failure.
DeserializeOption(field, inner(_)) ==
  IF field = <<>> THEN Ok(None)
  ELSE LET r == inner(field) IN IF r.ok THEN Ok(Some(r.val)) ELSE r

\* ------------------------------------------------------------------ dates
\* chrono's scan::number: between one and max decimal digits.
Number(s, max) ==
  LET ds == DigitPrefix(s, max)
  IN IF ds = <<>> THEN [ok |-> FALSE, v |-> 0, rest |-> s]
     ELSE [ok |-> TRUE, v |-> DigitsValue(ds, 10, 0), rest |-> Drop(s, Len(ds))]

\* chrono's parse_internal on Item::Numeric: leading white space is skipped; a
\* signed item (the year) takes any number of digits after an explicit sign and
\* at most width digits without one.
NumericItem(s, width, signed) ==
  LET t == TrimStart(s)
  IN IF signed /\ t # <<>> /\ Head(t) \in {"+", "-"}
     THEN LET n == Number(Tail(t), Len(t))
          IN [ok |-> n.ok, v |-> IF Head(t) = "-" THEN 0 - n.v ELSE n.v, rest |-> n.rest]
     ELSE Number(t, width)

\* Item::Space("") followed by Item::Literal(ch).
SpaceLiteral(s, ch) ==
  LET t == TrimStart(s)
  IN IF t # <<>> /\ Head(t) = ch THEN [ok |-> TRUE, rest |-> Tail(t)]
     ELSE [ok |-> FALSE, rest |-> t]

\* Fixed::Nanosecond: an optional '.' and digits; nine digits count, more are skipped.
Nanosecond(s) ==
  IF s # <<>> /\ Head(s) = "."
  THEN LET ds == DigitPrefix(Tail(s), 9)
           more == DigitPrefix(Drop(s, 1 + Len(ds)), Len(s))
           pad == [k \in 1..(9 - Len(ds)) |-> "0"]
       IN IF ds = <<>> THEN [ok |-> FALSE, v |-> 0, rest |-> s]
          ELSE [ok |-> TRUE, v |-> DigitsValue(ds \o pad, 10, 0),
                rest |-> Drop(s, 1 + Len(ds) + Len(more))]
  ELSE [ok |-> TRUE, v |-> 0, rest |-> s]

IsLeapYear(y) == y % 4 = 0 /\ (y % 100 # 0 \/ y % 400 = 0)

DaysInMonth(y, m) ==
  IF m = 2 THEN (IF IsLeapYear(y) THEN 29 ELSE 28)
  ELSE IF m \in {4, 6, 9, 11} THEN 30 ELSE 31

\* The items of chrono's parse_rfc3339_relaxed, in order: the date, the
\* separator, the time of day with its optional fraction, the offset.
Rfc3339Items ==
  << [item |-> "Numeric", set |-> "year", width |-> 4, signed |-> TRUE],
     [item |-> "Literal", ch |-> "-"],
     [item |-> "Numeric", set |-> "month", width |-> 2, signed |-> FALSE],
     [item |-> "Literal", ch |-> "-"],
     [item |-> "Numeric", set |-> "day", width |-> 2, signed |-> FALSE],
     [item |-> "Separator"],
     [item |-> "Numeric", set |-> "hour", width |-> 2, signed |-> FALSE],
     [item |-> "Literal", ch |-> ":"],
     [item |-> "Numeric", set |-> "minute", width |-> 2, signed |-> FALSE],
     [item |-> "Literal", ch |-> ":"],
     [item |-> "Numeric", set |-> "second", width |-> 2, signed |-> FALSE],
     [item |-> "Nanosecond"],
     [item |-> "Offset"] >>

\* One item applied to what is left of the string; p is the Parsed so far.
\* The only strings this parser is applied to end in the 'Z' that deserialize
\* pushed, and nothing may follow the offset, so an offset that parses and
\* ends the string is that final 'Z' (any other offset leaves the 'Z' behind).
ParseItem(it, p) ==
  CASE it.item = "Numeric" ->
         LET n == NumericItem(p.rest, it.width, it.signed)
         IN [p EXCEPT !.ok = n.ok, !.rest = n.rest, ![it.set] = n.v]
    [] it.item = "Literal" ->
         LET l == SpaceLiteral(p.rest, it.ch)
         IN [p EXCEPT !.ok = l.ok, !.rest = l.rest]
    [] it.item = "Separator" ->
         IF p.rest # <<>> /\ Head(p.rest) \in {"T", "t", " "}
         THEN [p EXCEPT !.rest = Tail(p.rest)]
         ELSE [p EXCEPT !.ok = FALSE]
    [] it.item = "Nanosecond" ->
         LET n == Nanosecond(p.rest)
         IN [p EXCEPT !.ok = n.ok, !.rest = n.rest, !.nano = n.v]
    [] it.item = "Offset" ->
         LET z == TrimStart(p.rest)
         IN IF z # <<>> /\ Head(z) \in {"Z", "z"}
            THEN [p EXCEPT !.rest = Tail(z)]
            ELSE [p EXCEPT !.ok = FALSE]

\* chrono's parse_internal: the items one after the other, until one fails.
RECURSIVE ParseInternal(_, _)
ParseInternal(items, p) ==
  IF items = <<>> \/ ~p.ok THEN p
  ELSE Strict(LAMBDA q : ParseInternal(Tail(items), q), ParseItem(Head(items), p))

\* <DateTime<Utc> as FromStr>::from_str: chrono's relaxed RFC 3339; nothing
\* but white space may follow the offset, and Parsed::to_datetime accepts only
\* a date of the calendar and a time of day (second 60 is a leap second).
DateTimeUtcFromStr(s) ==
  LET start == [ok |-> TRUE, rest |-> s, year |-> 0, month |-> 0, day |-> 0,
                hour |-> 0, minute |-> 0, second |-> 0, nano |-> 0]
      done(p) ==
        IF /\ p.ok
           /\ TrimStart(p.rest) = <<>>
           /\ p.year >= 0 - 262143 /\ p.year <= 262142
           /\ p.month >= 1 /\ p.month <= 12
           /\ p.day >= 1 /\ p.day <= DaysInMonth(p.year, p.month)
           /\ p.hour <= 23 /\ p.minute <= 59 /\ p.second <= 60
        THEN Ok([year |-> p.year, month |-> p.month, day |-> p.day,
                 hour |-> p.hour, minute |-> p.minute,
                 second |-> IF p.second = 60 THEN 59 ELSE p.second,
                 nano |-> IF p.second = 60 THEN p.nano + 1000000000 ELSE p.nano])
        ELSE Err("ParseDate")
  IN Strict(done, ParseInternal(Rfc3339Items, start))

\* address_date_format::deserialize: the field, with 'Z' pushed, parsed as a
\* zoned instant; a parse error becomes the deserializer's custom error.
deserialize(field) ==
  LET s == Append(field, "Z")
      r == DateTimeUtcFromStr(s)
  IN IF r.ok THEN r ELSE Err([kind |-> "Message", why |-> r.err])

\* ------------------------------------------------------------------ Address
\* struct Address: for each field, in declaration order, the header it is
\* renamed to (written here without its diacritics) and its type.
Address ==
  << [field |-> "adm_code", rename |-> "Kod ADM", type |-> "u32"],
     [field |-> "town_code", rename |-> "Kod obce", type |-> "u32"],
     [field |-> "town", rename |-> "Nazev obce", type |-> "String"],
     [field |-> "city_part_code", rename |-> "Kod MOMC", type |-> "Option<u64>"],
     [field |-> "city_part", rename |-> "Nazev MOMC", type |-> "Option<String>"],
     [field |-> "prague_part_code", rename |-> "Kod obvodu Prahy", type |-> "Option<u64>"],
     [field |-> "prague_part", rename |-> "Nazev obvodu Prahy", type |-> "Option<String>"],
     [field |-> "town_part_code", rename |-> "Kod casti obce", type |-> "u32"],
     [field |-> "town_part", rename |-> "Nazev casti obce", type |-> "String"],
     [field |-> "street_code", rename |-> "Kod ulice", type |-> "Option<u32>"],
     [field |-> "street", rename |-> "Nazev ulice", type |-> "Option<String>"],
     [field |-> "object_type", rename |-> "Typ SO", type |-> "String"],
     [field |-> "number", rename |-> "Cislo domovni", type |-> "u32"],
     [field |-> "orientation_number", rename |-> "Cislo orientacni", type |-> "Option<u32>"],
     [field |-> "orientation_number_sign", rename |-> "Znak cisla orientacniho",
      type |-> "Option<String>"],
     [field |-> "zip_code", rename |-> "PSC", type |-> "u32"],
     [field |-> "location_x", rename |-> "Souradnice X", type |-> "Option<f32>"],
     [field |-> "location_y", rename |-> "Souradnice Y", type |-> "Option<f32>"],
     [field |-> "valid_since", rename |-> "Plati Od", type |-> "DateTime<Utc>"] >>

FieldNames == {Address[k].field : k \in 1..Len(Address)}
Renames == {Address[k].rename : k \in 1..Len(Address)}
ColumnOf(rename) == CHOOSE k \in 1..Len(Address) : Address[k].rename = rename
IsOption(type) == type \in {"Option<u64>", "Option<u32>", "Option<String>", "Option<f32>"}

\* An Option that takes a cell its type cannot read for an absent value.
DeserializeOptionLenient(field, inner(_)) ==
  IF field = <<>> THEN Ok(None)
  ELSE LET r == inner(field) IN IF r.ok THEN Ok(Some(r.val)) ELSE Ok(None)

DeserializeFieldLenient(type, field) ==
  CASE type = "u32" -> DeserializeU32(field)
    [] type = "String" -> DeserializeString(field)
    [] type = "Option<u32>" -> DeserializeOptionLenient(field, DeserializeU32)
    [] type = "Option<u64>" -> DeserializeOptionLenient(field, DeserializeU64)
    [] type = "Option<String>" -> DeserializeOptionLenient(field, DeserializeString)
    [] type = "Option<f32>" -> DeserializeOptionLenient(field, DeserializeF32)
    [] type = "DateTime<Utc>" -> deserialize(field)

\* The deserializer serde's derive calls for a field of the given type.
DeserializeField(type, field) ==
  CASE type = "u32" -> DeserializeU32(field)
    [] type = "String" -> DeserializeString(field)
    [] type = "Option<u32>" -> DeserializeOption(field, DeserializeU32)
    [] type = "Option<u64>" -> DeserializeOption(field, DeserializeU64)
    [] type = "Option<String>" -> DeserializeOption(field, DeserializeString)
    [] type = "Option<f32>" -> DeserializeOption(field, DeserializeF32)
    [] type = "DateTime<Utc>" -> deserialize(field)

\* The derived visit_map over the columns cols (0 for a column Address does not
\* know, which is skipped) and their deserialized fields de: the columns are
\* visited left to right; a repeated column is an error, and so is the first
\* field that does not parse; after the last column, a field no column gave is
\* an error, unless it is an Option, which is then None.
VisitMap(cols, de) ==
  LET at(c) == {k \in 1..Len(cols) : cols[k] = c}
      missing == {c \in 1..Len(Address) : at(c) = {} /\ ~IsOption(Address[c].type)}
      finish(bad) ==
        IF bad # {}
        THEN Strict(LAMBDA k : IF \E j \in 1..(k - 1) : cols[j] = cols[k]
                               THEN Err([kind |-> "DuplicateField", at |-> k])
                               ELSE Err([kind |-> de[k].err.kind, at |-> k]),
                    CHOOSE k \in bad : \A j \in bad : k <= j)
        ELSE IF missing # {}
        THEN Err([kind |-> "MissingField", at |-> CHOOSE c \in missing : \A j \in missing : c <= j])
        ELSE Ok([f \in FieldNames |->
                   Strict(LAMBDA ks : IF ks = {} THEN None ELSE de[CHOOSE k \in ks : TRUE].val,
                          at(CHOOSE c \in 1..Len(Address) : Address[c].field = f))])
  IN Strict(finish, {k \in 1..Len(cols) :
                       /\ cols[k] # 0
                       /\ \/ \E j \in 1..(k - 1) : cols[j] = cols[k]
                          \/ ~de[k].ok})

\* One record against the headers: the record must be as long as the header
\* row (the reader is not flexible); then each known column's field is
\* deserialized as its type asks, and the Address is built.
DeserializeRecord(headers, record) ==
  LET fields(hs, rec, cols) ==
        Strict(LAMBDA de : VisitMap(cols, de),
               [k \in 1..Len(hs) |->
                  IF cols[k] = 0 THEN Ok(rec[k])
                  ELSE DeserializeField(Address[cols[k]].type, rec[k])] \o <<>>)
      go(hs, rec) ==
        IF Len(rec) # Len(hs) THEN Err([kind |-> "UnequalLengths", at |-> Len(rec)])
        ELSE Strict(LAMBDA cols : fields(hs, rec, cols),
                    [k \in 1..Len(hs) |->
                       IF hs[k] \in Renames THEN ColumnOf(hs[k]) ELSE 0] \o <<>>)
  IN Strict(LAMBDA hs : Strict(LAMBDA rec : go(hs, rec), record), headers)

\* ------------------------------------------------------------------ inputs
\* The bytes free-form cells are drawn from: digits, the signs, the decimal
\* point, a blank, a letter and one byte above 0x7F.
CellAlphabet == {"0", "1", "7", "x", "+", "-", ".", " ", "0xE8"}

FreeCells == UNION {[1..n -> CellAlphabet] : n \in 0..MaxCellLen}

\* Cells at the edges of the integer ranges.
EdgeCells ==
  { <<"4", "2", "9", "4", "9", "6", "7", "2", "9", "6">>,
    <<"9", "9", "9", "9", "9", "9", "9", "9", "9", "9", "9">>,
    <<"2", "1", "4", "7", "4", "8", "3", "6", "4", "7">>,
    <<"0", "x", "7", "f", "f", "f", "f", "f", "f", "f">>,
    <<"0", "x", "1", "0", "0", "0", "0", "0", "0", "0", "0">>,
    <<"0", "x", "1", "F">>,
    <<"+", "1", "1", "0">>,
    <<"0", "1", "1", "0">>,
    <<"1", ".", "5", "0">>,
    <<"-", "0", ".", "0">> }

\* Calendar dates and what may follow them in a validity-date cell.
DateParts ==
  { <<"2", "0", "1", "1", "-", "0", "7", "-", "0", "1">>,
    <<"2", "0", "2", "4", "-", "0", "2", "-", "2", "9">>,
    <<"2", "0", "2", "3", "-", "0", "2", "-", "2", "9">>,
    <<"2", "0", "1", "1", "-", "1", "3", "-", "0", "1">>,
    <<"2", "0", "1", "1", "-", "7", "-", "1">>,
    <<"+", "2", "0", "1", "1", "-", "0", "7", "-", "0", "1">> }

TimeParts ==
  { <<>>,
    <<"T", "0", "0", ":", "0", "0", ":", "0", "0">>,
    <<" ", "0", "0", ":", "0", "0", ":", "0", "0">>,
    <<"t", "1", "2", ":", "3", "4", ":", "5", "6">>,
    <<"T", "2", "4", ":", "0", "0", ":", "0", "0">>,
    <<"T", "2", "3", ":", "5", "9", ":", "6", "0">>,
    <<"T", "0", "0", ":", "0", "0">>,
    <<"T", "0", "0", ":", "0", "0", ":", "0", "0", "Z">>,
    <<"T", "0", "0", ":", "0", "0", ":", "0", "0", ".", "5">>,
    <<"Z">>,
    <<"T", " ", "0", " ", ":", " ", "0", " ", ":", " ", "0", " ">> }

DateCells == {d \o t : d \in DateParts, t \in TimeParts}

Cells == FreeCells \cup EdgeCells \cup DateCells

\* ------------------------------------------------------------------ archives
\* An entry of an archive is named by its shape: the tag its file name carries,
\* the number of data rows, the position of its first malformed row (0 when
\* every row is well formed; the rows after it are malformed too) and whether
\* by_index can open it.  Content gives the
\* bytes such an entry holds.
Shapes(tag) ==
  {[tag |-> tag, rows |-> n, bad |-> b, openable |-> TRUE] : n \in 0..MaxRows, b \in 0..MaxRows}
  \cup {[tag |-> tag, rows |-> 0, bad |-> 0, openable |-> FALSE]}

WellFormedShapes(tag) == {f \in Shapes(tag) : f.bad <= f.rows}

Archives ==
  UNION {{fs \in [1..n -> UNION {WellFormedShapes(t) : t \in 1..n}] :
            \A k \in 1..n : fs[k].tag = k} : n \in 0..MaxEntries}

Readers ==
  {[valid |-> FALSE, files |-> <<>>]} \cup {[valid |-> TRUE, files |-> fs] : fs \in Archives}

\* The header row: the columns in declaration order, or, in entries with an
\* even tag, in reverse order after a column Address does not know.
Declared == [k \in 1..Len(Address) |-> Address[k].rename]

HeaderOf(f) ==
  IF f.tag % 2 = 1 THEN Declared
  ELSE <<"Poznamka">> \o [k \in 1..Len(Declared) |-> Declared[Len(Declared) + 1 - k]]

DigitChar(n) == CHOOSE c \in Digits : DigitVal(c) = n

\* The cells of data row pos of entry f, by field.  Odd rows fill every optional
\* cell, even rows leave them all empty.  A malformed row has a letter in its
\* house number when it is the entry's first row, a date in the wrong notation
\* when it is the second, and lacks its last cell when it comes later.
CellsOf(f, pos) ==
  LET full == pos % 2 = 1
      opt(c) == IF full THEN c ELSE <<>>
      bad == f.bad # 0 /\ pos >= f.bad
  IN [ adm_code |-> <<DigitChar(f.tag), DigitChar(pos)>>,
       town_code |-> <<"5", "5", DigitChar(f.tag)>>,
       town |-> <<"G", "o", "l", "0xE8">>,
       city_part_code |-> opt(<<"5", "0", "0", "0", "5", "4">>),
       city_part |-> opt(<<"P", "r", "a", "h", "a", " ", "1">>),
       prague_part_code |-> opt(<<"0", "x", "1", "3">>),
       prague_part |-> opt(<<"P", "r", "a", "h", "a", " ", "1">>),
       town_part_code |-> <<"4", "9", "0", "0", "6", "7">>,
       town_part |-> <<"H", "r", "a", "d", "0xE8", "a", "n", "y">>,
       street_code |-> opt(<<"7">>),
       street |-> opt(<<"N", "0xE1", "m", ".", " ", "T", ".", " ", "G", ".", " ", "M", ".">>),
       object_type |-> <<"0xE8", ".", "p", ".">>,
       number |-> IF bad /\ pos = 1 THEN <<"1", "1", "x">> ELSE <<"1", "1", "0">>,
       orientation_number |-> opt(<<"3">>),
       orientation_number_sign |-> opt(<<"a">>),
       zip_code |-> <<"5", "8", "2", "8", "2">>,
       location_x |-> opt(<<"1", "0", "4", "0", "7", "1", "1", ".", "5", "0">>),
       location_y |-> opt(<<"7", "4", "4", "1", "8", "3", ".", "7", "5">>),
       valid_since |-> IF bad /\ pos = 2 THEN <<"1", ".", "7", ".", "2", "0", "1", "1">>
                       ELSE <<"2", "0", "1", "1", "-", "0", "7", "-", "0", "1", "T", "0", "0", ":", "0", "0", ":", "0", "0">> ]

\* Data row pos of entry f as the file lays it out: one cell per header column.
RowOf(f, pos) ==
  LET h == HeaderOf(f)
      cells == CellsOf(f, pos)
      row == [k \in 1..Len(h) |->
                IF h[k] \in Renames THEN cells[Address[ColumnOf(h[k])].field] ELSE <<"-">>]
  IN IF f.bad # 0 /\ pos >= f.bad /\ pos > 2 THEN SubSeq(row, 1, Len(row) - 1) ELSE row

\* The lines of an entry: the header and the data rows.
Lines(f) == 1 + f.rows

RECURSIVE SumLen(_)
SumLen(row) == IF row = <<>> THEN 0 ELSE Len(Head(row)) + 1 + SumLen(Tail(row))

RECURSIVE RowBytes(_, _)
RowBytes(f, pos) == IF pos = 0 THEN 0 ELSE SumLen(RowOf(f, pos)) + RowBytes(f, pos - 1)

\* ZipFile::size: the uncompressed size the archive declares for the entry, the
\* bytes of its header line and of its data rows, separators included.
Size(f) == (IF f.tag % 2 = 1 THEN 239 ELSE 248) + RowBytes(f, f.rows)

\* ------------------------------------------------------------------ state
VARIABLES
  reader,     \* the byte source the caller hands to parse_addresses_from_csv
  pc,         \* where the call stands
  zip,        \* the opened ZipArchive: its entries, by index
  i,          \* the index of the for loop
  rdr,        \* the csv::Reader over the decoder over the current entry
  addresses,  \* the records collected so far
  result,     \* what the call returned, once it has
  opened,     \* history: the indices by_index was called with, in order
  read,       \* history: per entry index, the lines pulled out of the archive
  parsed,     \* history: the lines the CSV readers consumed, in order
  prev,       \* the archive and the result of the caller's earlier call, if any
  column,     \* cell-level checks: the Address field deserialized
  field,      \* cell-level checks: the bytes of the cell
  value       \* cell-level checks: the outcome, once computed

vars ==
  <<reader, pc, zip, i, rdr, addresses, result, opened, read, parsed, prev,
    column, field, value>>

NoRdr == [entry |-> 0 - 1, unit |-> 0, pulled |-> 0, at |-> 0, headers |-> <<>>, batch |-> <<>>]
Pending == Err([type |-> "Pending"])
NoPrev == [set |-> FALSE, files |-> <<>>, result |-> Pending]

entry == zip[rdr.entry + 1]

Min(a, b) == IF a < b THEN a ELSE b

\* The call is entered: line 97.
Fresh ==
  /\ pc = "start"
  /\ zip = <<>>
  /\ i = 0
  /\ rdr = NoRdr
  /\ addresses = <<>>
  /\ result = Pending
  /\ opened = <<>>
  /\ read = <<>>
  /\ parsed = <<>>

Init ==
  /\ reader \in Readers
  /\ Fresh
  /\ prev = NoPrev
  /\ column = 1
  /\ field = <<>>
  /\ value = <<>>

\* ------------------------------------------------------------------ operations
\* An open that takes a byte source that is no archive for an empty archive.
OpenLenient ==
  /\ pc = "start"
  /\ zip' = reader.files
  /\ read' = [k \in 1..Len(reader.files) |-> 0]
  /\ pc' = "for"
  /\ UNCHANGED <<reader, i, rdr, addresses, result, opened, parsed, prev, column, field, value>>

\* zip::ZipArchive::new(reader)?
Open ==
  /\ pc = "start"
  /\ IF reader.valid
     THEN /\ zip' = reader.files
          /\ read' = [k \in 1..Len(reader.files) |-> 0]
          /\ pc' = "for"
          /\ UNCHANGED result
     ELSE /\ result' = Err([type |-> "Zip", why |-> "InvalidArchive"])
          /\ pc' = "done"
          /\ UNCHANGED <<zip, read>>
  /\ UNCHANGED <<reader, i, rdr, addresses, opened, parsed, prev, column, field, value>>

\* A loop that takes, of the entries not yet opened, the largest first.
ByIndexLargestFirst ==
  /\ pc = "for"
  /\ i < Len(zip)
  /\ LET unopened == {k \in 0..(Len(zip) - 1) : \A p \in 1..Len(opened) : opened[p] # k}
         e == CHOOSE k \in unopened :
                \A j \in unopened :
                  \/ Size(zip[k + 1]) > Size(zip[j + 1])
                  \/ Size(zip[k + 1]) = Size(zip[j + 1]) /\ k <= j
     IN /\ opened' = Append(opened, e)
        /\ IF zip[e + 1].openable
           THEN /\ rdr' = [NoRdr EXCEPT !.entry = e, !.unit = Len(opened) + 1]
                /\ pc' = "collect"
                /\ UNCHANGED <<result, addresses>>
           ELSE /\ result' = Err([type |-> "Zip", why |-> "by_index"])
                /\ addresses' = <<>>
                /\ pc' = "done"
                /\ UNCHANGED rdr
  /\ UNCHANGED <<reader, zip, i, read, parsed, prev, column, field, value>>

\* for i in 0..zip.len(): zip.by_index(i)?, then the decoder and the CSV reader
\* over the entry.  Nothing of the entry is read yet.
ByIndex ==
  /\ pc = "for"
  /\ i < Len(zip)
  /\ opened' = Append(opened, i)
  /\ IF zip[i + 1].openable
     THEN /\ rdr' = [NoRdr EXCEPT !.entry = i, !.unit = Len(opened) + 1]
          /\ pc' = "collect"
          /\ UNCHANGED <<result, addresses>>
     ELSE /\ result' = Err([type |-> "Zip", why |-> "by_index"])
          /\ addresses' = <<>>
          /\ pc' = "done"
          /\ UNCHANGED rdr
  /\ UNCHANGED <<reader, zip, i, read, parsed, prev, column, field, value>>

\* The CSV reader's buffer is empty and the entry is not exhausted: the next
\* lines are inflated out of the archive and decoded.
FillBuf ==
  /\ pc = "collect"
  /\ rdr.at = rdr.pulled
  /\ rdr.pulled < Lines(entry)
  /\ LET n == Min(BufRows, Lines(entry) - rdr.pulled)
     IN /\ rdr' = [rdr EXCEPT !.pulled = @ + n]
        /\ read' = [read EXCEPT ![rdr.entry + 1] = @ + n]
  /\ UNCHANGED <<reader, pc, zip, i, addresses, result, opened, parsed, prev,
                 column, field, value>>

\* has_headers(true): the first line is the header row.
ReadHeaders ==
  /\ pc = "collect"
  /\ rdr.at = 0
  /\ rdr.pulled > 0
  /\ rdr' = [rdr EXCEPT !.at = 1, !.headers = HeaderOf(entry)]
  /\ parsed' = Append(parsed, [unit |-> rdr.unit, entry |-> rdr.entry, line |-> 0])
  /\ UNCHANGED <<reader, pc, zip, i, addresses, result, opened, read, prev,
                 column, field, value>>

\* A collect that drops the rows that do not deserialize and goes on.
ReadRecordSkipBad ==
  /\ pc = "collect"
  /\ rdr.at >= 1
  /\ rdr.at < rdr.pulled
  /\ \E r \in {DeserializeRecord(rdr.headers, DecodeRecord(RowOf(entry, rdr.at)))} :
        rdr' = [rdr EXCEPT !.at = @ + 1, !.batch = IF r.ok THEN Append(@, r.val) ELSE @]
  /\ parsed' = Append(parsed, [unit |-> rdr.unit, entry |-> rdr.entry, line |-> rdr.at])
  /\ UNCHANGED <<reader, pc, zip, i, addresses, result, opened, read, prev, column, field, value>>

\* A collect that notes the error of a row and reads on to the end of the
\* entry before it returns the error noted last.
ReadRecordLastError ==
  /\ pc = "collect"
  /\ rdr.at >= 1
  /\ rdr.at < rdr.pulled
  /\ \E r \in {DeserializeRecord(rdr.headers, DecodeRecord(RowOf(entry, rdr.at)))} :
        /\ result' = IF r.ok THEN result
                     ELSE Err([type |-> "Csv", record |-> rdr.at, err |-> r.err])
        /\ IF rdr.at + 1 = Lines(entry) /\ (~r.ok \/ result # Pending)
           THEN addresses' = <<>> /\ rdr' = NoRdr /\ pc' = "done"
           ELSE /\ rdr' = [rdr EXCEPT !.at = @ + 1,
                                      !.batch = IF r.ok THEN Append(@, r.val) ELSE @]
                /\ UNCHANGED <<pc, addresses>>
  /\ parsed' = Append(parsed, [unit |-> rdr.unit, entry |-> rdr.entry, line |-> rdr.at])
  /\ UNCHANGED <<reader, zip, i, opened, read, prev, column, field, value>>

\* rdr.deserialize() yields the next record; collect::<Result<Vec<_>, _>>()
\* keeps it, or stops at its error, which ? returns.
ReadRecord ==
  /\ pc = "collect"
  /\ rdr.at >= 1
  /\ rdr.at < rdr.pulled
  /\ \E r \in {DeserializeRecord(rdr.headers, DecodeRecord(RowOf(entry, rdr.at)))} :
        IF r.ok
        THEN /\ rdr' = [rdr EXCEPT !.at = @ + 1, !.batch = Append(@, r.val)]
             /\ UNCHANGED <<pc, result, addresses>>
        ELSE /\ result' = Err([type |-> "Csv", record |-> rdr.at, err |-> r.err])
             /\ addresses' = <<>>
             /\ rdr' = NoRdr
             /\ pc' = "done"
  /\ parsed' = Append(parsed, [unit |-> rdr.unit, entry |-> rdr.entry, line |-> rdr.at])
  /\ UNCHANGED <<reader, zip, i, opened, read, prev, column, field, value>>

\* An extend that keeps the batch of the current entry only.
ExtendOverwrite ==
  /\ pc = "collect"
  /\ rdr.at = rdr.pulled
  /\ rdr.pulled = Lines(entry)
  /\ addresses' = rdr.batch
  /\ i' = i + 1
  /\ rdr' = NoRdr
  /\ pc' = "for"
  /\ UNCHANGED <<reader, zip, result, opened, read, parsed, prev, column, field, value>>

\* An extend that puts the batch of the current entry in front.
ExtendPrepend ==
  /\ pc = "collect"
  /\ rdr.at = rdr.pulled
  /\ rdr.pulled = Lines(entry)
  /\ addresses' = rdr.batch \o addresses
  /\ i' = i + 1
  /\ rdr' = NoRdr
  /\ pc' = "for"
  /\ UNCHANGED <<reader, zip, result, opened, read, parsed, prev, column, field, value>>

\* An extend that takes the end of the buffer for the end of the entry.
ExtendEarly ==
  /\ pc = "collect"
  /\ rdr.at >= 1
  /\ rdr.at = rdr.pulled
  /\ addresses' = addresses \o rdr.batch
  /\ i' = i + 1
  /\ rdr' = NoRdr
  /\ pc' = "for"
  /\ UNCHANGED <<reader, zip, result, opened, read, parsed, prev, column, field, value>>

\* The entry is exhausted: addresses.extend(batch), and the loop goes on.
Extend ==
  /\ pc = "collect"
  /\ rdr.at = rdr.pulled
  /\ rdr.pulled = Lines(entry)
  /\ addresses' = addresses \o rdr.batch
  /\ i' = i + 1
  /\ rdr' = NoRdr
  /\ pc' = "for"
  /\ UNCHANGED <<reader, zip, result, opened, read, parsed, prev, column, field, value>>

\* Ok(addresses)
Return ==
  /\ pc = "for"
  /\ i = Len(zip)
  /\ result' = Ok(addresses)
  /\ addresses' = <<>>
  /\ pc' = "done"
  /\ UNCHANGED <<reader, zip, i, rdr, opened, read, parsed, prev, column, field, value>>

Reorder(files, p) == [k \in 1..Len(files) |-> files[p[k]]]

\* The caller calls again, on an archive that holds the same entries in some
\* order, and keeps what the first call returned.
CallReordered ==
  /\ pc = "done"
  /\ ~prev.set
  /\ reader.valid
  /\ \E p \in Permutations(1..Len(reader.files)) :
       reader' = [reader EXCEPT !.files = Reorder(reader.files, p)]
  /\ prev' = [set |-> TRUE, files |-> reader.files, result |-> result]
  /\ pc' = "start"
  /\ zip' = <<>>
  /\ i' = 0
  /\ rdr' = NoRdr
  /\ addresses' = <<>>
  /\ result' = Pending
  /\ opened' = <<>>
  /\ read' = <<>>
  /\ parsed' = <<>>
  /\ UNCHANGED <<column, field, value>>

Next ==
  \/ Open
  \/ ByIndex
  \/ FillBuf
  \/ ReadHeaders
  \/ ReadRecord
  \/ Extend
  \/ Return
  \/ CallReordered

Spec == Init /\ [][Next]_vars

\* ------------------------------------------------------------------ one cell
\* A single cell of a single column, deserialized as the row deserializer
\* deserializes it.
InitCell ==
  /\ reader = [valid |-> FALSE, files |-> <<>>]
  /\ Fresh
  /\ prev = NoPrev
  /\ column \in 1..Len(Address)
  /\ field \in Cells
  /\ value = <<>>

DeserializeCell ==
  /\ value = <<>>
  /\ value' = <<Strict(LAMBDA cell : DeserializeField(Address[column].type, cell),
                       DecodeCell(field))>>
  /\ UNCHANGED <<reader, pc, zip, i, rdr, addresses, result, opened, read, parsed, prev,
                 column, field>>

NextCell == DeserializeCell

SpecCell == InitCell /\ [][NextCell]_vars

\* ------------------------------------------------------------------ expectations
\* What the archives above are, stated apart from the parser.
RowIsGood(f, pos) == f.bad = 0 \/ pos < f.bad
EntryIsGood(f) == f.openable /\ f.bad = 0
ArchiveIsGood(files) == \A k \in 1..Len(files) : EntryIsGood(files[k])

\* The Address that data row pos of entry f denotes, written out by hand.
ExpectedAddress(f, pos) ==
  LET opt(x) == IF pos % 2 = 1 THEN [some |-> TRUE, v |-> x] ELSE [some |-> FALSE]
  IN [ adm_code |-> <<0, 0, 10 * f.tag + pos>>,
       town_code |-> <<0, 0, 550 + f.tag>>,
       town |-> <<"G", "o", "l", "U+010D">>,
       city_part_code |-> opt(<<0, 0, 500054>>),
       city_part |-> opt(<<"P", "r", "a", "h", "a", " ", "1">>),
       prague_part_code |-> opt(<<0, 0, 19>>),
       prague_part |-> opt(<<"P", "r", "a", "h", "a", " ", "1">>),
       town_part_code |-> <<0, 0, 490067>>,
       town_part |-> <<"H", "r", "a", "d", "U+010D", "a", "n", "y">>,
       street_code |-> opt(<<0, 0, 7>>),
       street |-> opt(<<"N", "U+00E1", "m", ".", " ", "T", ".", " ", "G", ".", " ", "M", ".">>),
       object_type |-> <<"U+010D", ".", "p", ".">>,
       number |-> <<0, 0, 110>>,
       orientation_number |-> opt(<<0, 0, 3>>),
       orientation_number_sign |-> opt(<<"a">>),
       zip_code |-> <<0, 0, 58282>>,
       location_x |-> opt([neg |-> FALSE, digits |-> <<"1", "0", "4", "0", "7", "1", "1", "5">>, scale |-> 1]),
       location_y |-> opt([neg |-> FALSE, digits |-> <<"7", "4", "4", "1", "8", "3", "7", "5">>, scale |-> 2]),
       valid_since |-> [year |-> 2011, month |-> 7, day |-> 1,
                        hour |-> 0, minute |-> 0, second |-> 0, nano |-> 0] ]

ExpectedBatch(f) == [pos \in 1..f.rows |-> ExpectedAddress(f, pos)]

RECURSIVE ExpectedAll(_)
ExpectedAll(files) ==
  IF files = <<>> THEN <<>> ELSE ExpectedBatch(Head(files)) \o ExpectedAll(Tail(files))

RECURSIVE TotalRows(_)
TotalRows(files) == IF files = <<>> THEN 0 ELSE Head(files).rows + TotalRows(Tail(files))

BagOfSeq(q) ==
  [x \in {q[k] : k \in 1..Len(q)} |-> Cardinality({k \in 1..Len(q) : q[k] = x})]

Returned == pc = "done"

\* The first entry, by index from 1, that cannot be processed to its end.
FirstBadEntry(files) ==
  CHOOSE k \in 1..Len(files) :
    ~EntryIsGood(files[k]) /\ \A j \in 1..(k - 1) : EntryIsGood(files[j])

\* The lines of entry index e (from 0) the CSV readers consumed, in order.
RECURSIVE LinesParsed(_, _)
LinesParsed(log, e) ==
  IF log = <<>> THEN <<>>
  ELSE (IF Head(log).entry = e THEN <<Head(log).line>> ELSE <<>>) \o LinesParsed(Tail(log), e)

\* ------------------------------------------------------------------ claims

\* C1: parse_addresses_from_csv is all-or-nothing: it returns Ok exactly when
\* the archive opens and every entry opens and every row of every entry
\* parses; otherwise it returns an error and the caller receives no records,
\* none of the records of earlier, fully valid entries included.
C1_AllOrNothing ==
  Returned =>
    /\ result.ok <=> (reader.valid /\ ArchiveIsGood(reader.files))
    /\ ~result.ok => ("val" \notin DOMAIN result /\ addresses = <<>>)

\* C1 witness: the second entry has a malformed row, the first entry is fully
\* valid and has rows, and the call has returned.
C1_Witness ==
  /\ Returned
  /\ Len(reader.files) = 2
  /\ EntryIsGood(reader.files[1]) /\ reader.files[1].rows >= 1
  /\ reader.files[2].openable /\ reader.files[2].bad = 1
  /\ ~result.ok
  /\ Len(parsed) > Lines(reader.files[1])

\* C2: on success the result holds exactly one record per data row of the
\* archive (header rows yield none, no row is dropped or duplicated) and each
\* record is the typed form of the cells of its row.
C2_OneRecordPerRow ==
  (Returned /\ result.ok) =>
    /\ Len(result.val) = TotalRows(reader.files)
    /\ BagOfSeq(result.val) = BagOfSeq(ExpectedAll(reader.files))

\* C2 witness: a successful call on two entries with rows, one of them with its
\* columns in another order.
C2_Witness ==
  /\ Returned /\ result.ok
  /\ Len(reader.files) = 2
  /\ reader.files[1].rows = 2 /\ reader.files[2].rows = 1
  /\ Len(result.val) = 3

\* C3: the multiset of records returned does not depend on the order in which
\* the archive enumerates its entries: two archives holding the same valid
\* entries in different orders give results that are equal as multisets.
C3_OrderIrrelevant ==
  (Returned /\ prev.set /\ prev.result.ok) =>
    /\ result.ok
    /\ BagOfSeq(result.val) = BagOfSeq(prev.result.val)

\* C3 witness: the second call has returned the records of entries of
\* different sizes, enumerated in another order than in the first call.
C3_Witness ==
  /\ Returned /\ prev.set /\ prev.result.ok /\ result.ok
  /\ Len(reader.files) = 2
  /\ reader.files # prev.files
  /\ reader.files[1].rows # reader.files[2].rows
  /\ Len(result.val) >= 2

Deserialized == value # <<>>
ColumnType == Address[column].type
DecimalChars == {"0", "1", "2", "3", "4", "5", "6", "7", "8", "9"}
DecimalOf(c) ==
  CASE c = "0" -> 0 [] c = "1" -> 1 [] c = "2" -> 2 [] c = "3" -> 3 [] c = "4" -> 4
    [] c = "5" -> 5 [] c = "6" -> 6 [] c = "7" -> 7 [] c = "8" -> 8 [] c = "9" -> 9

\* What a short run of decimal digits denotes.
RECURSIVE Denotes(_)
Denotes(s) == IF s = <<>> THEN 0 ELSE 10 * Denotes(SubSeq(s, 1, Len(s) - 1)) + DecimalOf(s[Len(s)])

IsDecimal(s, n) == Len(s) = n /\ \A k \in 1..n : s[k] \in DecimalChars

\* A cell of the shape YYYY-MM-DD.
HasDateShape(s) ==
  /\ Len(s) = 10
  /\ s[5] = "-" /\ s[8] = "-"
  /\ \A k \in {1, 2, 3, 4, 6, 7, 9, 10} : s[k] \in DecimalChars

\* A cell of the shape YYYY-MM-DD that names a day of the calendar.
IsCalendarDate(s) ==
  /\ HasDateShape(s)
  /\ LET y == Denotes(SubSeq(s, 1, 4))
         m == Denotes(SubSeq(s, 6, 7))
         d == Denotes(SubSeq(s, 9, 10))
         leap == (y % 4 = 0 /\ y % 100 # 0) \/ y % 400 = 0
         days == CASE m \in {1, 3, 5, 7, 8, 10, 12} -> 31
                   [] m \in {4, 6, 9, 11} -> 30
                   [] m = 2 -> IF leap THEN 29 ELSE 28
                   [] OTHER -> 0
     IN d >= 1 /\ d <= days

Midnight(s) ==
  [year |-> Denotes(SubSeq(s, 1, 4)), month |-> Denotes(SubSeq(s, 6, 7)),
   day |-> Denotes(SubSeq(s, 9, 10)), hour |-> 0, minute |-> 0, second |-> 0, nano |-> 0]

\* C5 as claimed: a validity-date cell of the shape YYYY-MM-DD, such as
\* 2011-07-01, deserializes to midnight UTC of that date, and a cell that does
\* not have that shape is an error.
C5_DateLaw ==
  (Deserialized /\ ColumnType = "DateTime<Utc>") =>
    /\ IsCalendarDate(field) => value[1] = [ok |-> TRUE, val |-> Midnight(field)]
    /\ ~HasDateShape(field) => ~value[1].ok

\* C6: for an optional field, an empty cell deserializes to None, never to zero
\* or to the empty string; a non-empty cell deserializes to Some(v), v what the
\* field's type reads in the cell, or else is an error, never None.
C6_OptionalFieldLaw ==
  (Deserialized /\ IsOption(ColumnType)) =>
    LET cell == DecodeCell(field)
        r == value[1]
    IN /\ field = <<>> => r = [ok |-> TRUE, val |-> [some |-> FALSE]]
       /\ field # <<>> => (r.ok => r.val.some)
       /\ (field # <<>> /\ ColumnType = "Option<String>") =>
            r = [ok |-> TRUE, val |-> [some |-> TRUE, v |-> cell]]
       /\ (field # <<>> /\ ColumnType \in {"Option<u32>", "Option<u64>"}) =>
            /\ (\E n \in 1..7 : IsDecimal(field, n)) =>
                 r = [ok |-> TRUE, val |-> [some |-> TRUE, v |-> <<0, 0, Denotes(field)>>]]
            /\ (\A k \in 1..Len(field) : field[k] \in {" ", "-", "."}) => ~r.ok
       /\ (field # <<>> /\ ColumnType = "Option<f32>") =>
            /\ (\E n \in 1..7 : IsDecimal(field, n) /\ field[1] # "0" /\ field[n] # "0") =>
                 r = [ok |-> TRUE,
                      val |-> [some |-> TRUE,
                               v |-> [neg |-> FALSE, digits |-> field, scale |-> 0]]]
            /\ (\A k \in 1..Len(field) : field[k] \in {" ", "x"}) => ~r.ok

\* C6 witnesses: an optional integer column has read a non-empty cell as a
\* present value; an optional column has read the empty cell; an optional
\* integer column has refused a non-empty cell.
C6_Witness ==
  /\ Deserialized
  /\ ColumnType = "Option<u32>"
  /\ field = <<"1", "7">>
  /\ value[1].ok /\ value[1].val.some /\ value[1].val.v = <<0, 0, 17>>

C6_WitnessEmpty ==
  /\ Deserialized /\ IsOption(ColumnType) /\ field = <<>> /\ value[1].ok

C6_WitnessError ==
  /\ Deserialized /\ ColumnType = "Option<u64>" /\ field = <<"1", "x">> /\ ~value[1].ok

\* ------------------------------------------------------------------ call claims, continued

\* C7: when the byte source is not a valid ZIP container the call fails with
\* the archive's error before any entry is opened, read or parsed, and returns
\* no records.
C7_InvalidArchive ==
  (~reader.valid /\ pc # "start") =>
    /\ Returned
    /\ result = [ok |-> FALSE, err |-> [type |-> "Zip", why |-> "InvalidArchive"]]
    /\ opened = <<>> /\ read = <<>> /\ parsed = <<>>
    /\ zip = <<>> /\ addresses = <<>>

\* C7 witness: the call on an invalid byte source has returned.
C7_Witness == ~reader.valid /\ Returned /\ ~result.ok

ExpectedKind(pos) == IF pos = 1 THEN "ParseInt" ELSE IF pos = 2 THEN "Message" ELSE "UnequalLengths"

\* C9: the error returned is the first failure in processing order and
\* processing stops there: the entries before the first failing one are
\* processed, the error is that entry's (its first failing row's, if rows
\* fail), no row after the failing row is parsed, and no later entry is opened,
\* read or parsed; once there is a result the call has returned.
C9_FirstError ==
  /\ result # Pending => Returned
  /\ (Returned /\ reader.valid /\ ~result.ok) =>
       LET k == FirstBadEntry(zip)
           f == zip[k]
       IN /\ opened = [p \in 1..k |-> p - 1]
          /\ \A j \in 1..Len(zip) : j > k => read[j] = 0
          /\ \A a \in 1..Len(parsed) : parsed[a].entry <= k - 1
          /\ \A j \in 1..(k - 1) : Len(LinesParsed(parsed, j - 1)) = Lines(zip[j])
          /\ IF ~f.openable
             THEN /\ result.err = [type |-> "Zip", why |-> "by_index"]
                  /\ read[k] = 0
                  /\ LinesParsed(parsed, k - 1) = <<>>
             ELSE /\ result.err.type = "Csv"
                  /\ result.err.record = f.bad
                  /\ result.err.err.kind = ExpectedKind(f.bad)
                  /\ LinesParsed(parsed, k - 1) = [n \in 1..(f.bad + 1) |-> n - 1]

\* C9 witness: the first entry is valid, the second has two malformed rows and
\* a third row is never reached, and the call has returned the error of the first of them.
C9_Witness ==
  /\ Returned /\ ~result.ok
  /\ Len(zip) = 2
  /\ EntryIsGood(zip[1])
  /\ zip[2].openable /\ zip[2].bad = 1 /\ zip[2].rows = 2
  /\ result.err.type = "Csv" /\ result.err.record = 1

\* C10: on success the vector returned is the concatenation of the entries'
\* batches in ascending archive index, each batch in the order of its rows; so
\* a call on the same archive returns the same sequence.
C10_Concatenation ==
  /\ (Returned /\ result.ok) => result.val = ExpectedAll(reader.files)
  /\ (Returned /\ prev.set /\ prev.files = reader.files) => result = prev.result

\* C10 witness: a successful call on two entries that each have rows.
C10_Witness ==
  /\ Returned /\ result.ok
  /\ Len(zip) = 2 /\ zip[1].rows >= 1 /\ zip[2].rows >= 1
  /\ result.val[1] = ExpectedAddress(zip[1], 1)
  /\ result.val[Len(result.val)] = ExpectedAddress(zip[2], zip[2].rows)

\* C10 witness, the second call: the same archive was parsed twice.
C10_WitnessAgain ==
  /\ Returned /\ prev.set /\ prev.files = reader.files /\ result.ok /\ Len(result.val) >= 2

====
